---- MODULE Spec2Model ----
(***************************************************************************)
(* Referral-commission and payout ledger of the course-sales backend.      *)
(*                                                                         *)
(* The stores (Payment, Commission, Payout, PayoutRequest collections and  *)
(* the User documents) are the state.  Every HTTP handler is a process     *)
(* that runs from one storage call (await) to the next in one step, so two *)
(* concurrent requests interleave exactly where Node.js lets them.         *)
(* Money is kept in whole currency units; the course prices are chosen so  *)
(* that amount * rate / 100 is exact, as it is in the handlers' floating   *)
(* point arithmetic for these values.                                      *)
(***************************************************************************)
EXTENDS Integers, Sequences, FiniteSets, TLC

\* ------------------------------------------------------------------ bounds
\* payment events (webhook deliveries, manual confirmations) per behaviour
MaxPaymentEvents == 2
\* refund, payout and status requests per behaviour
MaxLedgerOps == 2

\* ------------------------------------------------------------- the universe
Procs == {"h1", "h2"}          \* concurrently served requests
Users == {"A", "B", "N"}       \* A refers B; N has no referrer
Courses == {"c1", "c2"}
Tx == {"t1", "t2"}             \* payment intents held by the provider
None == "none"

\* User.referredBy: set once at registration, never changed
ReferredBy(u) == IF u = "B" THEN "A" ELSE None

\* Course.price
Price(c) == IF c = "c1" THEN 100 ELSE 200

\* the metadata and amount (in cents) createPaymentIntent gave the intent
IntentUser(tx) == IF tx = "t1" THEN "B" ELSE "N"
IntentCourse(tx) == IF tx = "t1" THEN "c1" ELSE "c2"
IntentAmount(tx) == Price(IntentCourse(tx)) * 100

\* User.role
Roles == {"user", "agent", "admin"}

\* User.commissionRate values tried (schema: min 0, max 100, default 10)
Rates == {0, 10}
\* process.env.COMMISSION_PERCENTAGE || 10
DefaultCommissionPercentage == 10

\* amounts an admin or agent asks to pay out
RequestAmounts == {10, 30}
PayoutMethods == {"bank_transfer", "manual"}
CommissionStatuses == {"pending", "paid", "cancelled"}
RequestStatuses == {"pending", "approved", "rejected", "completed"}

VARIABLES
  users,        \* User documents
  payments,     \* Payment collection, in insertion order; id = index
  commissions,  \* Commission collection, in insertion order; id = index
  payouts,      \* Payout collection
  requests,     \* PayoutRequest collection
  pc,           \* where each request handler stands
  loc,          \* the handler's local variables
  refunds,      \* refunds issued at the provider, per payment id
  processed,    \* transaction ids a handler has processed to its end
  npay,         \* payment events received so far
  nled          \* refund, payout and status requests received so far

vars == <<users, payments, commissions, payouts, requests, pc, loc,
          refunds, processed, npay, nled>>

stores == <<users, payments, commissions, payouts, requests>>

\* --------------------------------------------------------------- helpers
Ids(s) == 1..Len(s)

RECURSIVE SumSeq(_, _)
\* reduce((sum, c) => sum + c.amount, 0) over a list of commission ids
SumSeq(list, comms) ==
  IF list = <<>> THEN 0
  ELSE comms[Head(list)].amount + SumSeq(Tail(list), comms)

RECURSIVE SetToSeq(_)
\* the ids of a set in collection (insertion) order
SetToSeq(S) ==
  IF S = {} THEN <<>>
  ELSE LET m == CHOOSE x \in S : \A y \in S : x <= y
       IN <<m>> \o SetToSeq(S \ {m})

SumSet(S, comms) == SumSeq(SetToSeq(S), comms)

Range(s) == {s[i] : i \in DOMAIN s}

Contains(s, x) == \E i \in DOMAIN s : s[i] = x

\* Commission.find({ agent, status: 'pending' }), as a list
PendingOf(agent, comms) ==
  SetToSeq({c \in Ids(comms) : comms[c].agent = agent /\ comms[c].status = "pending"})

\* a lookup that only sees payments still pending
ExistingPaymentPendingOnly(tx) ==
  \E i \in Ids(payments) : payments[i].tx = tx /\ payments[i].status = "pending"

\* Payment.findOne({ transactionId })
ExistingPayment(tx) == \E i \in Ids(payments) : payments[i].tx = tx

\* a check that lets every referrer through
ReferralAgentAnyRole(agent) == TRUE

\* referralAgent && referralAgent.role === 'agent'
ReferralAgentIsAgent(agent) == agent.role = "agent"

\* payment.amount * referralAgent.commissionRate / 100
CommissionAmount(amount, rate) == (amount * rate) \div 100

\* referrer.commissionRate || parseFloat(process.env.COMMISSION_PERCENTAGE || 10)
CommissionPercentage(rate) == IF rate # 0 THEN rate ELSE DefaultCommissionPercentage

\* (paymentIntent.amount / 100) * (commissionPercentage / 100)
ReferralCommissionAmount(cents, rate) ==
  ((cents \div 100) * CommissionPercentage(rate)) \div 100

Idle == [op |-> "none", tx |-> None, caller |-> None, course |-> None,
         enr |-> <<>>, pur |-> <<>>, pay |-> 0, agent |-> None, amt |-> 0,
         method |-> None, ids |-> {}, sel |-> <<>>, total |-> 0, cid |-> 0,
         st |-> None, dup |-> FALSE, meta |-> TRUE, resp |-> 0]

\* the handler answers with HTTP status code and returns; what stays is the
\* request it served and the answer
Respond(p, l, code) ==
  /\ pc' = [pc EXCEPT ![p] = "done"]
  /\ loc' = [loc EXCEPT ![p] = [Idle EXCEPT !.op = l.op, !.tx = l.tx,
                                            !.pay = l.pay, !.agent = l.agent,
                                            !.amt = l.amt, !.dup = l.dup,
                                            !.resp = code]]

Goto(p, l, label) ==
  /\ pc' = [pc EXCEPT ![p] = label]
  /\ loc' = [loc EXCEPT ![p] = l]

NewUser == [role |-> "user", active |-> FALSE, rate |-> 10, bank |-> "none",
            enrolled |-> <<>>, purchased |-> <<>>,
            totalCommission |-> 0, totalReferrals |-> 0, referrals |-> {}]

\* the stores after set-up: the three users are registered, A has referred B
\* and holds the given role, nothing has been bought
InitStores(role, a, r, b) ==
  /\ users = [u \in Users |->
                IF u = "A"
                THEN [NewUser EXCEPT !.role = role, !.active = a,
                                     !.rate = r, !.bank = b]
                ELSE NewUser]
  /\ payments = <<>>
  /\ commissions = <<>>
  /\ payouts = <<>>
  /\ requests = <<>>
  /\ pc = [p \in Procs |-> "idle"]
  /\ loc = [p \in Procs |-> Idle]
  /\ refunds = <<>>
  /\ processed = {}
  /\ npay = 0
  /\ nled = 0

\* the agent is approved or not and has bank details or not
Init ==
  \E a \in BOOLEAN, b \in {"none", "unverified", "verified"} :
    InitStores("agent", a, 10, b)

\* the referrer is an agent, approved or not, or has been given another role
\* since referring; with any of the commission rates
InitPay ==
  \E role \in Roles, a \in BOOLEAN, r \in Rates : InitStores(role, a, r, "none")

\* a request arrives and is served by a free slot; which free slot serves it
\* makes no difference, so the first free one does
FreeSlot(p) == pc[p] = "idle" /\ (p = "h1" \/ pc["h1"] # "idle")

ArrivePayment(p) ==
  FreeSlot(p) /\ npay < MaxPaymentEvents /\ npay' = npay + 1 /\ UNCHANGED nled

ArriveLedger(p) ==
  FreeSlot(p) /\ nled < MaxLedgerOps /\ nled' = nled + 1 /\ UNCHANGED npay

\* ------------------------------------------------- handleWebhook (succeeded)
\* stripe.webhooks.constructEvent and the dispatch on event.type
WebhookReceive(p) ==
  /\ ArrivePayment(p)
  /\ \E tx \in Tx, sigOk \in BOOLEAN, meta \in BOOLEAN :
       LET l == [Idle EXCEPT !.op = "webhook", !.tx = tx,
                             !.caller = IntentUser(tx),
                             !.course = IntentCourse(tx),
                             !.dup = (tx \in processed),
                             !.meta = meta]
       IN IF sigOk THEN Goto(p, l, "w_load") ELSE Respond(p, l, 400)
  /\ UNCHANGED <<stores, refunds, processed>>

\* the metadata check (an event whose intent carries no userId or courseId
\* is answered 400), then User.findById(userId), Course.findById(courseId)
WebhookLoad(p) ==
  /\ pc[p] = "w_load"
  /\ IF ~loc[p].meta THEN Respond(p, loc[p], 400)
     ELSE Goto(p, [loc[p] EXCEPT !.enr = users[loc[p].caller].enrolled,
                                 !.pur = users[loc[p].caller].purchased], "w_lookup")
  /\ UNCHANGED <<stores, refunds, processed, npay, nled>>

\* Payment.findOne({ transactionId }) and the already-enrolled check
WebhookLookup(p) ==
  /\ pc[p] = "w_lookup"
  /\ IF ExistingPayment(loc[p].tx) THEN Respond(p, loc[p], 200)
     ELSE IF Contains(loc[p].enr, loc[p].course) THEN Respond(p, loc[p], 200)
     ELSE Goto(p, loc[p], "w_paysave")
  /\ UNCHANGED <<stores, refunds, processed, npay, nled>>

\* a payment record that names the agent whoever the purchaser is
NewPaymentAlwaysReferred(l) ==
  [tx |-> l.tx, user |-> l.caller, course |-> l.course,
   amount |-> IntentAmount(l.tx) \div 100, status |-> "completed",
   referralAgent |-> "A"]

\* new Payment({ ..., referralAgent: user.referredBy || null })
NewPayment(l) ==
  [tx |-> l.tx, user |-> l.caller, course |-> l.course,
   amount |-> IntentAmount(l.tx) \div 100, status |-> "completed",
   referralAgent |-> ReferredBy(l.caller)]

\* new Payment({...}); await payment.save()
WebhookPaymentSave(p) ==
  /\ pc[p] = "w_paysave"
  /\ payments' = Append(payments, NewPayment(loc[p]))
  /\ refunds' = Append(refunds, 0)
  /\ Goto(p, [loc[p] EXCEPT !.pay = Len(payments) + 1],
          IF ReferredBy(loc[p].caller) # None THEN "w_agent1" ELSE "w_usersave")
  /\ UNCHANGED <<users, commissions, payouts, requests, processed, npay, nled>>

\* User.findById(user.referredBy); role check; commission amount
WebhookAgentRead(p) ==
  /\ pc[p] = "w_agent1"
  /\ LET a == ReferredBy(loc[p].caller) IN
       IF ReferralAgentIsAgent(users[a])
       THEN Goto(p, [loc[p] EXCEPT !.agent = a,
                       !.amt = CommissionAmount(payments[loc[p].pay].amount, users[a].rate)],
                 "w_comm1")
       ELSE Goto(p, loc[p], "w_usersave")
  /\ UNCHANGED <<stores, refunds, processed, npay, nled>>

\* decremented is history: the times the agent's totalCommission was decreased
\* on account of this commission
NewCommission(l, pays) ==
  [agent |-> l.agent, referral |-> l.caller, payment |-> l.pay,
   amount |-> l.amt, originalAmount |-> pays[l.pay].amount,
   status |-> "pending", paidAt |-> 0, payoutId |-> 0, type |-> "commission",
   decremented |-> 0]

\* new Commission({...}); await commission.save()
WebhookCommissionSave(p) ==
  /\ pc[p] = "w_comm1"
  /\ commissions' = Append(commissions, NewCommission(loc[p], payments))
  /\ Goto(p, loc[p], "w_usersave")
  /\ UNCHANGED <<users, payments, payouts, requests, refunds, processed, npay, nled>>

\* coursesPurchased.push / coursesEnrolled.push guarded by the loaded
\* document's arrays; await user.save() sends the pushed elements
SaveEnrollment(l) ==
  [users EXCEPT
     ![l.caller].purchased =
        IF Contains(l.pur, l.course) THEN @ ELSE Append(@, l.course),
     ![l.caller].enrolled =
        IF Contains(l.enr, l.course) THEN @ ELSE Append(@, l.course)]

WebhookUserSave(p) ==
  /\ pc[p] = "w_usersave"
  /\ users' = SaveEnrollment(loc[p])
  /\ IF ReferredBy(loc[p].caller) # None
     THEN Goto(p, loc[p], "w_agent2") /\ UNCHANGED processed
     ELSE Respond(p, loc[p], 200) /\ processed' = processed \cup {loc[p].tx}
  /\ UNCHANGED <<payments, commissions, payouts, requests, refunds, npay, nled>>

\* await user.save() throws: the outer catch answers 400 with the Payment
\* (and the first commission) already stored
WebhookUserSaveFails(p) ==
  /\ pc[p] = "w_usersave"
  /\ Respond(p, loc[p], 400)
  /\ UNCHANGED <<stores, refunds, processed, npay, nled>>

\* second block: User.findById(user.referredBy); role and isActiveAgent check
WebhookReferrerRead(p) ==
  /\ pc[p] = "w_agent2"
  /\ LET a == ReferredBy(loc[p].caller) IN
       IF users[a].role = "agent" /\ users[a].active
       THEN Goto(p, [loc[p] EXCEPT !.agent = a,
                       !.amt = ReferralCommissionAmount(IntentAmount(loc[p].tx), users[a].rate)],
                 "w_comm2") /\ UNCHANGED processed
       ELSE Respond(p, loc[p], 200) /\ processed' = processed \cup {loc[p].tx}
  /\ UNCHANGED <<stores, refunds, npay, nled>>

\* second new Commission({...}); await commission.save()
WebhookReferralCommissionSave(p) ==
  /\ pc[p] = "w_comm2"
  /\ commissions' = Append(commissions, NewCommission(loc[p], payments))
  /\ Goto(p, loc[p], "w_inc")
  /\ UNCHANGED <<users, payments, payouts, requests, refunds, processed, npay, nled>>

\* User.findByIdAndUpdate(referredBy, { $inc, $addToSet })
WebhookReferrerStats(p) ==
  /\ pc[p] = "w_inc"
  /\ users' = [users EXCEPT
        ![loc[p].agent].totalCommission = @ + loc[p].amt,
        ![loc[p].agent].totalReferrals = @ + 1,
        ![loc[p].agent].referrals = @ \cup {loc[p].caller}]
  /\ Respond(p, loc[p], 200)
  /\ processed' = processed \cup {loc[p].tx}
  /\ UNCHANGED <<payments, commissions, payouts, requests, refunds, npay, nled>>

\* ------------------------------------------------------ manualPaymentConfirm
\* stripe.paymentIntents.retrieve(paymentIntentId): the intents of Tx have
\* succeeded; userId comes from the caller's token, courseId from the body
ManualConfirmReceive(p) ==
  /\ ArrivePayment(p)
  /\ \E tx \in Tx, u \in {"B", "N"}, c \in Courses :
       Goto(p, [Idle EXCEPT !.op = "manual", !.tx = tx, !.caller = u,
                            !.course = c, !.dup = (tx \in processed)], "m_load")
  /\ UNCHANGED <<stores, refunds, processed>>

\* User.findById(userId), Course.findById(courseId)
ManualConfirmLoad(p) ==
  /\ pc[p] = "m_load"
  /\ Goto(p, [loc[p] EXCEPT !.enr = users[loc[p].caller].enrolled,
                            !.pur = users[loc[p].caller].purchased], "m_lookup")
  /\ UNCHANGED <<stores, refunds, processed, npay, nled>>

\* Payment.findOne({ transactionId: paymentIntentId })
ManualConfirmLookup(p) ==
  /\ pc[p] = "m_lookup"
  /\ IF ExistingPayment(loc[p].tx) THEN Respond(p, loc[p], 400)
     ELSE Goto(p, loc[p], "m_paysave")
  /\ UNCHANGED <<stores, refunds, processed, npay, nled>>

\* new Payment({...}); await payment.save()
ManualConfirmPaymentSave(p) ==
  /\ pc[p] = "m_paysave"
  /\ payments' = Append(payments, NewPayment(loc[p]))
  /\ refunds' = Append(refunds, 0)
  /\ Goto(p, [loc[p] EXCEPT !.pay = Len(payments) + 1],
          IF ReferredBy(loc[p].caller) # None THEN "m_agent" ELSE "m_usersave")
  /\ UNCHANGED <<users, commissions, payouts, requests, processed, npay, nled>>

\* User.findById(user.referredBy); role check; commission amount
ManualConfirmAgentRead(p) ==
  /\ pc[p] = "m_agent"
  /\ LET a == ReferredBy(loc[p].caller) IN
       IF ReferralAgentIsAgent(users[a])
       THEN Goto(p, [loc[p] EXCEPT !.agent = a,
                       !.amt = CommissionAmount(payments[loc[p].pay].amount, users[a].rate)],
                 "m_comm")
       ELSE Goto(p, loc[p], "m_usersave")
  /\ UNCHANGED <<stores, refunds, processed, npay, nled>>

\* new Commission({...}); await commission.save()
ManualConfirmCommissionSave(p) ==
  /\ pc[p] = "m_comm"
  /\ commissions' = Append(commissions, NewCommission(loc[p], payments))
  /\ Goto(p, loc[p], "m_usersave")
  /\ UNCHANGED <<users, payments, payouts, requests, refunds, processed, npay, nled>>

\* coursesPurchased / coursesEnrolled push; await user.save()
ManualConfirmUserSave(p) ==
  /\ pc[p] = "m_usersave"
  /\ users' = SaveEnrollment(loc[p])
  /\ Respond(p, loc[p], 200)
  /\ processed' = processed \cup {loc[p].tx}
  /\ UNCHANGED <<payments, commissions, payouts, requests, refunds, npay, nled>>

\* await user.save() throws: the catch answers 500 with the Payment stored
ManualConfirmUserSaveFails(p) ==
  /\ pc[p] = "m_usersave"
  /\ Respond(p, loc[p], 500)
  /\ UNCHANGED <<stores, refunds, processed, npay, nled>>

\* ------------------------------------- handleWebhook (payment_failed event)
\* new Payment({ ..., status: 'failed', referralAgent: null }).save(), with no
\* lookup before it; the event is acknowledged
WebhookPaymentFailed(p) ==
  /\ ArrivePayment(p)
  /\ \E tx \in Tx :
       /\ payments' = Append(payments,
            [tx |-> tx, user |-> IntentUser(tx), course |-> IntentCourse(tx),
             amount |-> IntentAmount(tx) \div 100, status |-> "failed",
             referralAgent |-> None])
       /\ refunds' = Append(refunds, 0)
       /\ Respond(p, [Idle EXCEPT !.op = "failed", !.tx = tx], 200)
  /\ UNCHANGED <<users, commissions, payouts, requests, processed>>

\* ------------------------------------------------------------- enrollInCourse
\* Course.findById, User.findById(req.user.userId) and the already-enrolled
\* check
EnrollInCourseReceive(p) ==
  /\ ArrivePayment(p)
  /\ \E u \in {"B", "N"}, c \in Courses :
       LET l == [Idle EXCEPT !.op = "enroll", !.caller = u, !.course = c,
                             !.enr = users[u].enrolled]
       IN IF Contains(l.enr, c) THEN Respond(p, l, 400)
          ELSE Goto(p, l, "e_save")
  /\ UNCHANGED <<stores, refunds, processed>>

\* user.coursesEnrolled.push(course._id); await user.save()
EnrollInCourseSave(p) ==
  /\ pc[p] = "e_save"
  /\ users' = [users EXCEPT ![loc[p].caller].enrolled = Append(@, loc[p].course)]
  /\ Respond(p, loc[p], 200)
  /\ UNCHANGED <<payments, commissions, payouts, requests, refunds, processed, npay, nled>>

\* -------------------------------------------------------------- processRefund
\* a check that turns no payment away
PaymentNotCompletedNever(status) == FALSE

\* payment.status !== 'completed'
PaymentNotCompleted(status) == status # "completed"

\* Payment.findById(paymentId) and the status check
RefundReceive(p) ==
  /\ ArriveLedger(p)
  /\ \E id \in Ids(payments) :
       LET l == [Idle EXCEPT !.op = "refund", !.pay = id] IN
       IF PaymentNotCompleted(payments[id].status) THEN Respond(p, l, 400)
       ELSE Goto(p, l, "r_stripe")
  /\ UNCHANGED <<stores, refunds, processed>>

\* stripe.refunds.create without an amount refunds the whole charge: the
\* provider refunds a charge it has not refunded yet, or the call throws
RefundProvider(p) ==
  /\ pc[p] = "r_stripe"
  /\ \/ /\ refunds[loc[p].pay] = 0
        /\ refunds' = [refunds EXCEPT ![loc[p].pay] = @ + 1]
        /\ Goto(p, loc[p], "r_paysave")
     \/ /\ Respond(p, loc[p], 500)
        /\ UNCHANGED refunds
  /\ UNCHANGED <<stores, processed, npay, nled>>

\* payment.status = 'refunded'; await payment.save()
RefundPaymentSave(p) ==
  /\ pc[p] = "r_paysave"
  /\ payments' = [payments EXCEPT ![loc[p].pay].status = "refunded"]
  /\ IF payments[loc[p].pay].referralAgent # None
     THEN Goto(p, loc[p], "r_commfind")
     ELSE Respond(p, loc[p], 200)
  /\ UNCHANGED <<users, commissions, payouts, requests, refunds, processed, npay, nled>>

\* Commission.findOne({ payment: payment._id }): the first one stored
FindCommissionOfPayment(pay, comms) ==
  LET S == {c \in Ids(comms) : comms[c].payment = pay}
  IN IF S = {} THEN 0 ELSE CHOOSE c \in S : \A d \in S : c <= d

\* the lookup of the payment's commission and its status check
RefundCommissionFind(p) ==
  /\ pc[p] = "r_commfind"
  /\ LET c == FindCommissionOfPayment(loc[p].pay, commissions) IN
       IF c # 0 /\ commissions[c].status = "pending"
       THEN Goto(p, [loc[p] EXCEPT !.cid = c, !.agent = payments[loc[p].pay].referralAgent,
                                   !.amt = commissions[c].amount], "r_commsave")
       ELSE Respond(p, loc[p], 200)
  /\ UNCHANGED <<stores, refunds, processed, npay, nled>>

\* commission.status = 'cancelled'; await commission.save()
RefundCommissionSave(p) ==
  /\ pc[p] = "r_commsave"
  /\ commissions' = [commissions EXCEPT ![loc[p].cid].status = "cancelled"]
  /\ Goto(p, loc[p], "r_dec")
  /\ UNCHANGED <<users, payments, payouts, requests, refunds, processed, npay, nled>>

\* User.findByIdAndUpdate(referralAgent, { $inc: { totalCommission: -amount } })
RefundAgentTotal(p) ==
  /\ pc[p] = "r_dec"
  /\ users' = [users EXCEPT ![loc[p].agent].totalCommission = @ - loc[p].amt]
  /\ commissions' = [commissions EXCEPT ![loc[p].cid].decremented = @ + 1]
  /\ Respond(p, loc[p], 200)
  /\ UNCHANGED <<payments, payouts, requests, refunds, processed, npay, nled>>

\* ---------------------------------------------------------- processBulkPayout
\* Commission.find({ _id: { $in: commissionIds }, status: 'pending' })
BulkPayoutReceive(p) ==
  /\ ArriveLedger(p)
  /\ \E ids \in SUBSET Ids(commissions) :
       /\ ids # {}
       /\ LET found == {c \in ids : commissions[c].status = "pending"}
              l == [Idle EXCEPT !.op = "bulk", !.ids = ids,
                                !.sel = SetToSeq(found),
                                !.total = SumSet(found, commissions)]
          IN IF found = {} THEN Respond(p, l, 400) ELSE Goto(p, l, "b_update")
  /\ UNCHANGED <<stores, refunds, processed>>

\* the update document of a payout: status 'paid', paidAt: new Date().
\* paidAt counts the times the field was stamped; 0 is unset
MarkPaid(comms, ids) ==
  [c \in DOMAIN comms |->
     IF c \in ids THEN [comms[c] EXCEPT !.status = "paid", !.paidAt = @ + 1]
     ELSE comms[c]]

\* the filter of processBulkPayout's updateMany: { _id: { $in: commissionIds } }
BulkPayoutFilter(ids, comms) == ids \cap Ids(comms)

\* Commission.updateMany(filter, { status: 'paid', ... }) and the summary
BulkPayoutUpdate(p) ==
  /\ pc[p] = "b_update"
  /\ commissions' = MarkPaid(commissions, BulkPayoutFilter(loc[p].ids, commissions))
  /\ Respond(p, loc[p], 200)
  /\ UNCHANGED <<users, payments, payouts, requests, refunds, processed, npay, nled>>

\* -------------------------------------------------------- processManualPayout
\* the checks on the agent document that every agent payout starts with
AgentCheck(agent, needVerified) ==
  IF users[agent].role # "agent" THEN 404
  ELSE IF users[agent].bank = "none" THEN 400
  ELSE IF needVerified /\ users[agent].bank # "verified" THEN 400
  ELSE 0

\* User.findById(agentId) and the bank-details checks
ManualPayoutReceive(p) ==
  /\ ArriveLedger(p)
  /\ \E agent \in {"A", "B"}, amount \in RequestAmounts, method \in PayoutMethods :
       LET l == [Idle EXCEPT !.op = "payout", !.agent = agent, !.amt = amount]
           code == AgentCheck(agent, method = "bank_transfer")
       IN IF code # 0 THEN Respond(p, l, code) ELSE Goto(p, l, "mp_find")
  /\ UNCHANGED <<stores, refunds, processed>>

\* the comparison with its operands exchanged
ExceedsAvailableSwapped(amount, totalPending) == totalPending > amount

\* amount > totalPendingAmount
ExceedsAvailable(amount, totalPending) == amount > totalPending

\* a selection that takes the first commission whatever its amount
GreedyFirstOnly(list, remaining, comms) ==
  IF list = <<>> THEN <<>> ELSE <<Head(list)>>

RECURSIVE Greedy(_, _, _)
\* the loop that takes commissions while remainingAmount >= commission.amount
Greedy(list, remaining, comms) ==
  IF list = <<>> THEN <<>>
  ELSE IF remaining >= comms[Head(list)].amount
       THEN <<Head(list)>> \o
            Greedy(Tail(list), remaining - comms[Head(list)].amount, comms)
       ELSE <<>>

\* Commission.find({ agent, status: 'pending' }), the two rejections and the
\* greedy selection
ManualPayoutFind(p) ==
  /\ pc[p] = "mp_find"
  /\ LET list == PendingOf(loc[p].agent, commissions)
         total == SumSeq(list, commissions)
     IN IF list = <<>> THEN Respond(p, loc[p], 400)
        ELSE IF ExceedsAvailable(loc[p].amt, total) THEN Respond(p, loc[p], 400)
        ELSE Goto(p, [loc[p] EXCEPT !.sel = Greedy(list, loc[p].amt, commissions)],
                  "mp_update")
  /\ UNCHANGED <<stores, refunds, processed, npay, nled>>

\* Commission.updateMany({ _id: { $in: commissionsToPay } }, { status: 'paid' })
ManualPayoutUpdate(p) ==
  /\ pc[p] = "mp_update"
  /\ commissions' = MarkPaid(commissions, Range(loc[p].sel))
  /\ Goto(p, [loc[p] EXCEPT !.ids =
                {c \in Range(loc[p].sel) : commissions[c].status = "pending"}],
          "mp_posave")
  /\ UNCHANGED <<users, payments, payouts, requests, refunds, processed, npay, nled>>

\* new Payout({...}); await payout.save().  requested and turned are history:
\* the amount asked for and the commissions the update found pending
ManualPayoutSave(p) ==
  /\ pc[p] = "mp_posave"
  /\ payouts' = Append(payouts,
       [agent |-> loc[p].agent,
        amount |-> SumSeq(loc[p].sel, commissions),
        status |-> "completed",
        commissionIds |-> Range(loc[p].sel),
        totalCommissionsPaid |-> SumSeq(loc[p].sel, commissions),
        requested |-> loc[p].amt,
        turned |-> loc[p].ids])
  /\ Goto(p, [loc[p] EXCEPT !.cid = Len(payouts) + 1], "mp_link")
  /\ UNCHANGED <<users, payments, commissions, requests, refunds, processed, npay, nled>>

\* await payout.save() throws: the catch answers 500 with the commissions
\* already marked paid
ManualPayoutSaveFails(p) ==
  /\ pc[p] = "mp_posave"
  /\ Respond(p, loc[p], 500)
  /\ UNCHANGED <<stores, refunds, processed, npay, nled>>

\* Commission.updateMany({ _id: { $in: commissionsToPay } }, { payoutId })
ManualPayoutLink(p) ==
  /\ pc[p] = "mp_link"
  /\ commissions' = [c \in DOMAIN commissions |->
        IF c \in Range(loc[p].sel)
        THEN [commissions[c] EXCEPT !.payoutId = loc[p].cid]
        ELSE commissions[c]]
  /\ Respond(p, loc[p], 200)
  /\ UNCHANGED <<users, payments, payouts, requests, refunds, processed, npay, nled>>

\* -------------------------------------------------------- processBankTransfer
\* User.findById(agentId); bank details must be on file and verified
BankTransferReceive(p) ==
  /\ ArriveLedger(p)
  /\ \E amount \in RequestAmounts :
       LET l == [Idle EXCEPT !.op = "transfer", !.agent = "A", !.amt = amount]
           code == AgentCheck("A", TRUE)
       IN IF code # 0 THEN Respond(p, l, code) ELSE Goto(p, l, "bt_find")
  /\ UNCHANGED <<stores, refunds, processed>>

\* Commission.find({ agent, status: 'pending' }) and the two rejections
BankTransferFind(p) ==
  /\ pc[p] = "bt_find"
  /\ LET list == PendingOf(loc[p].agent, commissions)
         total == SumSeq(list, commissions)
     IN IF list = <<>> THEN Respond(p, loc[p], 400)
        ELSE IF ExceedsAvailable(loc[p].amt, total) THEN Respond(p, loc[p], 400)
        ELSE Goto(p, [loc[p] EXCEPT !.sel = list], "bt_update")
  /\ UNCHANGED <<stores, refunds, processed, npay, nled>>

\* Commission.updateMany({ _id: { $in: commissionIds } }, { status: 'paid' })
BankTransferUpdate(p) ==
  /\ pc[p] = "bt_update"
  /\ commissions' = MarkPaid(commissions, Range(loc[p].sel))
  /\ Goto(p, loc[p], "bt_save")
  /\ UNCHANGED <<users, payments, payouts, requests, refunds, processed, npay, nled>>

\* new Commission({ agent, amount, status: 'paid', type: 'payout' }).save()
BankTransferSave(p) ==
  /\ pc[p] = "bt_save"
  /\ commissions' = Append(commissions,
       [agent |-> loc[p].agent, referral |-> None, payment |-> 0,
        amount |-> loc[p].amt, originalAmount |-> 0, status |-> "paid",
        paidAt |-> 1, payoutId |-> 0, type |-> "payout", decremented |-> 0])
  /\ Respond(p, loc[p], 200)
  /\ UNCHANGED <<users, payments, payouts, requests, refunds, processed, npay, nled>>

\* ----------------------------------------------------- updateCommissionStatus
\* the update document { status } with paidAt added when status is 'paid'
SetStatus(comms, ids, st) ==
  [c \in DOMAIN comms |->
     IF c \in ids
     THEN [comms[c] EXCEPT !.status = st,
                           !.paidAt = IF st = "paid" THEN @ + 1 ELSE @]
     ELSE comms[c]]

\* Commission.findByIdAndUpdate(id, updateData)
UpdateCommissionStatus(p) ==
  /\ ArriveLedger(p)
  /\ \E id \in Ids(commissions), st \in CommissionStatuses :
       /\ commissions' = SetStatus(commissions, {id}, st)
       /\ Respond(p, [Idle EXCEPT !.op = "status"], 200)
  /\ UNCHANGED <<users, payments, payouts, requests, refunds, processed>>

\* ----------------------------- performBulkActions('update-commission-status')
\* Commission.updateMany({ _id: { $in: ids } }, updateData)
PerformBulkActions(p) ==
  /\ ArriveLedger(p)
  /\ \E ids \in SUBSET Ids(commissions), st \in CommissionStatuses :
       /\ ids # {}
       /\ commissions' = SetStatus(commissions, ids, st)
       /\ Respond(p, [Idle EXCEPT !.op = "bulkstatus"], 200)
  /\ UNCHANGED <<users, payments, payouts, requests, refunds, processed>>

\* -------------------------------------------------------------- requestPayout
\* User.findById(req.user.userId): agent role and approval
RequestPayoutReceive(p) ==
  /\ ArriveLedger(p)
  /\ \E amount \in RequestAmounts :
       LET l == [Idle EXCEPT !.op = "request", !.agent = "A", !.amt = amount] IN
       IF users["A"].role # "agent" THEN Respond(p, l, 403)
       ELSE IF ~users["A"].active THEN Respond(p, l, 400)
       ELSE Goto(p, l, "rp_agg")
  /\ UNCHANGED <<stores, refunds, processed>>

\* Commission.aggregate: the sum of the agent's pending commissions
RequestPayoutAggregate(p) ==
  /\ pc[p] = "rp_agg"
  /\ IF loc[p].amt > SumSeq(PendingOf(loc[p].agent, commissions), commissions)
     THEN Respond(p, loc[p], 400)
     ELSE Goto(p, loc[p], "rp_find")
  /\ UNCHANGED <<stores, refunds, processed, npay, nled>>

\* Math.ceil(amount / 10)
CeilTenth(amount) == (amount + 9) \div 10

\* Commission.find({ agent, status: 'pending' }).limit(Math.ceil(amount / 10))
RequestPayoutFind(p) ==
  /\ pc[p] = "rp_find"
  /\ LET list == PendingOf(loc[p].agent, commissions)
         n == IF Len(list) < CeilTenth(loc[p].amt) THEN Len(list)
              ELSE CeilTenth(loc[p].amt)
     IN Goto(p, [loc[p] EXCEPT !.sel = SubSeq(list, 1, n), !.total = 0], "rp_loop")
  /\ UNCHANGED <<stores, refunds, processed, npay, nled>>

RECURSIVE SkipToFit(_, _, _, _)
\* the loop runs on without a storage call past every commission that does
\* not fit: totalUpdated + commission.amount <= amount
SkipToFit(list, total, amount, comms) ==
  IF list = <<>> THEN <<>>
  ELSE IF total + comms[Head(list)].amount <= amount THEN list
  ELSE SkipToFit(Tail(list), total, amount, comms)

\* commission.status = 'paid'; await commission.save(), once per commission
RequestPayoutLoop(p) ==
  /\ pc[p] = "rp_loop"
  /\ LET rest == SkipToFit(loc[p].sel, loc[p].total, loc[p].amt, commissions) IN
       IF rest = <<>>
       THEN Respond(p, loc[p], 200) /\ UNCHANGED commissions
       ELSE /\ commissions' = MarkPaid(commissions, {Head(rest)})
            /\ Goto(p, [loc[p] EXCEPT !.sel = Tail(rest),
                          !.total = @ + commissions[Head(rest)].amount], "rp_loop")
  /\ UNCHANGED <<users, payments, payouts, requests, refunds, processed, npay, nled>>

\* -------------------------------------------------------- createPayoutRequest
\* User.findById(agentId) and the bank-details check
CreatePayoutRequestReceive(p) ==
  /\ ArriveLedger(p)
  /\ \E amount \in RequestAmounts, ids \in SUBSET Ids(commissions) :
       LET l == [Idle EXCEPT !.op = "create", !.agent = "A", !.amt = amount,
                             !.ids = ids]
       IN IF users["A"].bank = "none" THEN Respond(p, l, 400)
          ELSE IF ids # {} THEN Goto(p, l, "cpr_validate")
          ELSE Goto(p, l, "cpr_save")
  /\ UNCHANGED <<stores, refunds, processed>>

\* Commission.find({ _id: { $in: commissionIds }, agent, status: 'pending' })
CreatePayoutRequestValidate(p) ==
  /\ pc[p] = "cpr_validate"
  /\ LET found == {c \in loc[p].ids : /\ commissions[c].agent = loc[p].agent
                                      /\ commissions[c].status = "pending"}
     IN IF Cardinality(found) # Cardinality(loc[p].ids)
        THEN Respond(p, loc[p], 400)
        ELSE Goto(p, loc[p], "cpr_save")
  /\ UNCHANGED <<stores, refunds, processed, npay, nled>>

\* new PayoutRequest({ agent, amount, commissionIds }).save()
CreatePayoutRequestSave(p) ==
  /\ pc[p] = "cpr_save"
  /\ requests' = Append(requests,
       [agent |-> loc[p].agent, amount |-> loc[p].amt, status |-> "pending",
        commissionIds |-> loc[p].ids])
  /\ Respond(p, loc[p], 200)
  /\ UNCHANGED <<users, payments, commissions, payouts, refunds, processed, npay, nled>>

\* ------------------------------------------------------- processPayoutRequest
\* PayoutRequest.findById(id).populate('agent').populate('commissionIds')
ProcessPayoutRequestReceive(p) ==
  /\ ArriveLedger(p)
  /\ \E id \in Ids(requests), st \in RequestStatuses :
       LET l == [Idle EXCEPT !.op = "process", !.cid = id, !.st = st,
                             !.ids = requests[id].commissionIds]
       IN IF st \in {"approved", "completed"} /\ users[requests[id].agent].bank = "none"
          THEN Respond(p, l, 400)
          ELSE IF st = "completed" THEN Goto(p, l, "pr_update")
          ELSE Goto(p, l, "pr_save")
  /\ UNCHANGED <<stores, refunds, processed>>

\* Commission.updateMany({ _id: { $in: commissionIds } }, { status: 'paid' })
ProcessPayoutRequestUpdate(p) ==
  /\ pc[p] = "pr_update"
  /\ commissions' = MarkPaid(commissions, loc[p].ids)
  /\ Goto(p, loc[p], "pr_save")
  /\ UNCHANGED <<users, payments, payouts, requests, refunds, processed, npay, nled>>

\* payoutRequest.status = status; await payoutRequest.save()
ProcessPayoutRequestSave(p) ==
  /\ pc[p] = "pr_save"
  /\ requests' = [requests EXCEPT ![loc[p].cid].status = loc[p].st]
  /\ Respond(p, loc[p], 200)
  /\ UNCHANGED <<users, payments, commissions, payouts, refunds, processed, npay, nled>>

\* the handler has answered; the slot is free again
Finish(p) ==
  /\ pc[p] = "done"
  /\ pc' = [pc EXCEPT ![p] = "idle"]
  /\ loc' = [loc EXCEPT ![p] = Idle]
  /\ UNCHANGED <<stores, refunds, processed, npay, nled>>

\* the steps of the payment-event handlers
PaymentStep(p) ==
  \/ WebhookLoad(p)
  \/ WebhookLookup(p)
  \/ WebhookPaymentSave(p)
  \/ WebhookAgentRead(p)
  \/ WebhookCommissionSave(p)
  \/ WebhookUserSave(p)
  \/ WebhookReferrerRead(p)
  \/ WebhookReferralCommissionSave(p)
  \/ WebhookReferrerStats(p)
  \/ ManualConfirmLoad(p)
  \/ ManualConfirmLookup(p)
  \/ ManualConfirmPaymentSave(p)
  \/ ManualConfirmAgentRead(p)
  \/ ManualConfirmCommissionSave(p)
  \/ ManualConfirmUserSave(p)

\* payment events: deliveries and confirmations overlap freely, and the save
\* of the purchaser's document may fail
NextPay ==
  \E p \in Procs :
    \/ WebhookReceive(p)
    \/ ManualConfirmReceive(p)
    \/ PaymentStep(p)
    \/ WebhookUserSaveFails(p)
    \/ ManualConfirmUserSaveFails(p)
    \/ Finish(p)

SpecPay == InitPay /\ [][NextPay]_vars

Quiet == \A q \in Procs : pc[q] = "idle"

\* the whole API, one request at a time
Next ==
  \E p \in Procs :
    \/ Quiet /\ nled = 0 /\ WebhookReceive(p)
    \/ Quiet /\ nled = 0 /\ ManualConfirmReceive(p)
    \/ PaymentStep(p)
    \/ Quiet /\ nled = 0 /\ WebhookPaymentFailed(p)
    \/ Quiet /\ nled = 0 /\ EnrollInCourseReceive(p)
    \/ EnrollInCourseSave(p)
    \/ Quiet /\ RefundReceive(p)
    \/ RefundProvider(p)
    \/ RefundPaymentSave(p)
    \/ RefundCommissionFind(p)
    \/ RefundCommissionSave(p)
    \/ RefundAgentTotal(p)
    \/ Quiet /\ BulkPayoutReceive(p)
    \/ BulkPayoutUpdate(p)
    \/ Quiet /\ ManualPayoutReceive(p)
    \/ ManualPayoutFind(p)
    \/ ManualPayoutUpdate(p)
    \/ ManualPayoutSave(p)
    \/ ManualPayoutLink(p)
    \/ Quiet /\ BankTransferReceive(p)
    \/ BankTransferFind(p)
    \/ BankTransferUpdate(p)
    \/ BankTransferSave(p)
    \/ Quiet /\ UpdateCommissionStatus(p)
    \/ Quiet /\ PerformBulkActions(p)
    \/ Quiet /\ RequestPayoutReceive(p)
    \/ RequestPayoutAggregate(p)
    \/ RequestPayoutFind(p)
    \/ RequestPayoutLoop(p)
    \/ Quiet /\ CreatePayoutRequestReceive(p)
    \/ CreatePayoutRequestValidate(p)
    \/ CreatePayoutRequestSave(p)
    \/ Quiet /\ ProcessPayoutRequestReceive(p)
    \/ ProcessPayoutRequestUpdate(p)
    \/ ProcessPayoutRequestSave(p)
    \/ Finish(p)

Spec == Init /\ [][Next]_vars

\* no payment-event handler is running
NoPaymentEvent == \A q \in Procs : loc[q].op \notin {"webhook", "manual"}

\* refunds and payouts overlap freely once the purchases are made
NextPayout ==
  \E p \in Procs :
    \/ Quiet /\ nled = 0 /\ WebhookReceive(p)
    \/ Quiet /\ nled = 0 /\ ManualConfirmReceive(p)
    \/ PaymentStep(p)
    \/ NoPaymentEvent /\ RefundReceive(p)
    \/ RefundProvider(p)
    \/ RefundPaymentSave(p)
    \/ RefundCommissionFind(p)
    \/ RefundCommissionSave(p)
    \/ RefundAgentTotal(p)
    \/ NoPaymentEvent /\ BulkPayoutReceive(p)
    \/ BulkPayoutUpdate(p)
    \/ NoPaymentEvent /\ ManualPayoutReceive(p)
    \/ ManualPayoutFind(p)
    \/ ManualPayoutUpdate(p)
    \/ ManualPayoutSave(p)
    \/ ManualPayoutSaveFails(p)
    \/ ManualPayoutLink(p)
    \/ NoPaymentEvent /\ BankTransferReceive(p)
    \/ BankTransferFind(p)
    \/ BankTransferUpdate(p)
    \/ BankTransferSave(p)
    \/ Finish(p)

SpecPayout == Init /\ [][NextPayout]_vars

\* ======================================================== the properties
\* the commission records (not the payout markers of processBankTransfer)
CommissionsOf(pay) ==
  {c \in Ids(commissions) : commissions[c].payment = pay /\ commissions[c].type = "commission"}

\* handler p takes a step
Steps(p) == pc'[p] # pc[p] \/ loc'[p] # loc[p]

\* C1: however deliveries and confirmations for one transaction id interleave,
\* there is never more than one Payment with that transactionId (the loser of
\* the race is to treat the event as already processed).
C1_OnePaymentPerTransaction ==
  \A tx \in Tx : Cardinality({i \in Ids(payments) : payments[i].tx = tx}) <= 1

C3_OneCommissionPerPayment ==
  \A pay \in Ids(payments) : Cardinality(CommissionsOf(pay)) <= 1

\* C4: every Commission has amount = P * R / 100 for the payment amount P and
\* the agent's rate R (R = 0 included), originalAmount = P, and starts pending.
C4_CommissionAmount ==
  \A c \in Ids(commissions) :
    commissions[c].type = "commission" =>
      LET P == payments[commissions[c].payment].amount
          R == users[commissions[c].agent].rate
      IN /\ commissions[c].amount * 100 = P * R
         /\ commissions[c].originalAmount = P
         /\ commissions[c].status = "pending"

\* C5: the only status changes a Commission ever makes are pending to paid and
\* pending to cancelled; paid and cancelled are final.
C5_TerminalStatus ==
  [][\A c \in Ids(commissions) :
       commissions'[c].status # commissions[c].status
         => /\ commissions[c].status = "pending"
            /\ commissions'[c].status \in {"paid", "cancelled"}]_vars

\* the step with which processRefund answers success
RefundSucceeds(p) ==
  /\ loc[p].op = "refund" /\ pc[p] # "done"
  /\ pc'[p] = "done" /\ loc'[p].resp = 200

\* C6: when a refund succeeds, a commission of the payment that was paid is
\* untouched, none is left pending, and the step that cancels a pending one
\* is followed by a decrease of the agent's total by exactly its amount.
C6_RefundCancelsPending ==
  [][\A p \in Procs :
       /\ RefundSucceeds(p) =>
            \A c \in CommissionsOf(loc[p].pay) : commissions'[c].status # "pending"
       /\ (Steps(p) /\ loc[p].op = "refund") =>
            \A c \in CommissionsOf(loc[p].pay) :
              commissions[c].status = "paid" => commissions'[c] = commissions[c]
       /\ (Steps(p) /\ pc[p] = "r_dec") =>
            /\ commissions[loc[p].cid].status = "cancelled"
            /\ users'[loc[p].agent].totalCommission =
                 users[loc[p].agent].totalCommission - commissions[loc[p].cid].amount]_vars

\* C7: every Payout of processManualPayout has totalCommissionsPaid = amount =
\* the sum of the amounts of its commissionIds, at most the requested amount,
\* and its commissionIds are exactly the commissions the operation turned
\* from pending to paid.
C7_PayoutConservation ==
  \A po \in Ids(payouts) :
    /\ payouts[po].totalCommissionsPaid = payouts[po].amount
    /\ payouts[po].amount = SumSet(payouts[po].commissionIds, commissions)
    /\ payouts[po].amount <= payouts[po].requested
    /\ payouts[po].turned = payouts[po].commissionIds

\* C8: a manual payout that asks for more than the agent's pending commissions
\* add up to is answered with an error and writes nothing.
C8_ExceedingPayoutRejected ==
  [][\A p \in Procs :
       (/\ Steps(p) /\ pc[p] = "mp_find"
        /\ loc[p].amt > SumSeq(PendingOf(loc[p].agent, commissions), commissions))
         => /\ pc'[p] = "done" /\ loc'[p].resp = 400
            /\ UNCHANGED stores]_vars

\* a manual payout for an agent with verified bank details and pending
\* commissions was turned down for its amount
C8_Witness ==
  \E p \in Procs :
    /\ pc[p] = "done" /\ loc[p].op = "payout" /\ loc[p].resp = 400
    /\ loc[p].agent = "A" /\ users["A"].bank = "verified"
    /\ PendingOf("A", commissions) # <<>>
    /\ loc[p].amt > SumSeq(PendingOf("A", commissions), commissions)
    /\ payouts = <<>>

\* C9: the update of processBulkPayout changes only commissions that are in
\* commissionIds and pending, and the count and total it reports are those of
\* the commissions it turned to paid.
C9_BulkPayoutOnlyPending ==
  [][\A p \in Procs :
       (Steps(p) /\ pc[p] = "b_update") =>
         LET turned == {c \in Ids(commissions) :
                          /\ commissions[c].status = "pending"
                          /\ commissions'[c].status = "paid"}
         IN /\ \A c \in Ids(commissions) :
                 commissions'[c] # commissions[c]
                   => c \in loc[p].ids /\ commissions[c].status = "pending"
            /\ loc[p].total = SumSet(turned, commissions)
            /\ Len(loc[p].sel) = Cardinality(turned)]_vars

RECURSIVE SumPayouts(_, _)
\* the sum of the amounts of an agent's Payout records
SumPayouts(list, agent) ==
  IF list = <<>> THEN 0
  ELSE (IF Head(list).agent = agent THEN Head(list).amount ELSE 0)
       + SumPayouts(Tail(list), agent)

\* C10: a commission is listed in the commissionIds of at most one Payout, and
\* an agent's Payouts never add up to more than the agent's paid commissions.
C10_PaidOutOnce ==
  /\ \A c \in Ids(commissions) :
       Cardinality({po \in Ids(payouts) : c \in payouts[po].commissionIds}) <= 1
  /\ \A a \in Users :
       SumPayouts(payouts, a) <=
         SumSet({c \in Ids(commissions) : /\ commissions[c].agent = a
                                          /\ commissions[c].type = "commission"
                                          /\ commissions[c].status = "paid"},
                commissions)

\* the commission is in the commissionIds of some Payout
Listed(c) == \E po \in Ids(payouts) : c \in payouts[po].commissionIds

\* C11: however a refund and a payout on the same pending commission
\* interleave, the commission is never paid with the agent's totalCommission
\* decremented for it, never cancelled while listed in a Payout, decremented
\* at most once, and when all handlers have returned a listed commission is
\* paid and a cancelled one has been decremented exactly once.
C11_RefundPayoutOutcome ==
  \A c \in Ids(commissions) :
    commissions[c].type = "commission" =>
      /\ commissions[c].decremented <= 1
      /\ commissions[c].status = "paid" => commissions[c].decremented = 0
      /\ commissions[c].status = "cancelled" => ~Listed(c)
      /\ Quiet => /\ Listed(c) => commissions[c].status = "paid"
                  /\ commissions[c].status = "cancelled"
                       => commissions[c].decremented = 1

\* C12: no step of requestPayout or createPayoutRequest changes a Commission
\* (status, paidAt, payout fields): an agent's request only records a request.
C12_RequestLeavesCommissions ==
  [][\A p \in Procs :
       (Steps(p) /\ loc'[p].op \in {"request", "create"})
         => commissions' = commissions]_vars

\* C13: a PayoutRequest's status changes only pending to approved, approved to
\* completed and pending to rejected, and processPayoutRequest marks the
\* request's commissions paid only on the transition into completed.
C13_RequestStateMachine ==
  [][/\ \A r \in Ids(requests) :
          requests'[r].status # requests[r].status
            => <<requests[r].status, requests'[r].status>> \in
                 {<<"pending", "approved">>, <<"approved", "completed">>,
                  <<"pending", "rejected">>}
     /\ \A p \in Procs :
          (Steps(p) /\ pc[p] = "pr_update" /\ commissions' # commissions)
            => requests[loc[p].cid].status = "approved" /\ loc[p].st = "completed"]_vars

\* C14: a correctly signed succeeded event is always answered 200, whatever
\* happens while it is processed; an event whose signature fails is answered
\* 400 before any record is read or written.
C14_WebhookAcknowledges ==
  [][\A p \in Procs :
       /\ (Steps(p) /\ loc[p].op = "webhook" /\ pc'[p] = "done")
            => loc'[p].resp = 200
       /\ (Steps(p) /\ pc[p] = "idle" /\ loc'[p].op = "webhook" /\ pc'[p] = "done")
            => loc'[p].resp = 400 /\ UNCHANGED stores]_vars

\* C15: while the referrer does not have role agent, no Commission exists for
\* the referrer and the referrer's counters stay as they were, and every
\* payment event that was processed to its end has left a completed Payment
\* and the purchaser enrolled in the course.
C15_NoCommissionForNonAgent ==
  users["A"].role # "agent" =>
    /\ \A c \in Ids(commissions) : commissions[c].agent # "A"
    /\ users["A"].totalCommission = 0
    /\ users["A"].totalReferrals = 0
    /\ users["A"].referrals = {}
    /\ \A p \in Procs :
         (/\ pc[p] = "done" /\ loc[p].op \in {"webhook", "manual"}
          /\ loc[p].pay # 0 /\ loc[p].resp = 200)
           => /\ payments[loc[p].pay].status = "completed"
              /\ Contains(users[payments[loc[p].pay].user].enrolled,
                          payments[loc[p].pay].course)

\* the purchase of the referred user was processed while the referrer had
\* been demoted to user: payment and enrollment, no commission
C15_Witness ==
  /\ users["A"].role = "user"
  /\ commissions = <<>>
  /\ Contains(users["B"].enrolled, "c1")
  /\ \E p \in Procs :
       /\ pc[p] = "done" /\ loc[p].op = "webhook" /\ loc[p].tx = "t1"
       /\ loc[p].resp = 200 /\ loc[p].pay # 0
       /\ payments[loc[p].pay].referralAgent = "A"

\* C16: no Commission exists for a referrer whose isActiveAgent flag is false.
C16_NoCommissionBeforeApproval ==
  ~users["A"].active => \A c \in Ids(commissions) : commissions[c].agent # "A"

\* C17: a course is in a user's coursesEnrolled only if a Payment that
\* completed was recorded for that user and that course.
C17_EnrolledOnlyIfPaid ==
  \A u \in Users : \A c \in Courses :
    Contains(users[u].enrolled, c) =>
      \E i \in Ids(payments) :
        /\ payments[i].user = u /\ payments[i].course = c
        /\ payments[i].status \in {"completed", "refunded"}

C19_NoReferrerNoCommission ==
  [][\A p \in Procs :
       (/\ Steps(p) /\ loc[p].op \in {"webhook", "manual"}
        /\ loc[p].caller # None /\ ReferredBy(loc[p].caller) = None)
         => /\ commissions' = commissions
            /\ \A u \in Users :
                 /\ users'[u].totalCommission = users[u].totalCommission
                 /\ users'[u].totalReferrals = users[u].totalReferrals
            /\ Len(payments') > Len(payments)
                 => payments'[Len(payments')].referralAgent = None]_vars

\* the purchase of the user without a referrer was processed while an
\* approved agent is on file
C19_Witness ==
  /\ users["A"].role = "agent" /\ users["A"].active
  /\ \E p \in Procs :
       /\ pc[p] = "done" /\ loc[p].op \in {"webhook", "manual"}
       /\ loc[p].resp = 200 /\ loc[p].pay # 0
       /\ payments[loc[p].pay].user = "N"
       /\ payments[loc[p].pay].referralAgent = None
       /\ CommissionsOf(loc[p].pay) = {}

\* C20: the commissions processManualPayout selects are a prefix of the
\* agent's pending commissions in storage order whose amounts add up to at
\* most the requested amount, and the prefix is the longest such: the next
\* commission would overshoot.  The payout changes no commission's amount.
C20_GreedyPrefix ==
  [][\A p \in Procs :
       /\ (Steps(p) /\ pc[p] = "mp_find" /\ pc'[p] = "mp_update") =>
            LET list == PendingOf(loc[p].agent, commissions)
                sel == loc'[p].sel
                n == Len(sel)
            IN /\ n <= Len(list)
               /\ sel = SubSeq(list, 1, n)
               /\ SumSeq(sel, commissions) <= loc[p].amt
               /\ n < Len(list)
                    => SumSeq(SubSeq(list, 1, n + 1), commissions) > loc[p].amt
       /\ (Steps(p) /\ loc[p].op = "payout") =>
            \A c \in Ids(commissions) : commissions'[c].amount = commissions[c].amount]_vars

\* a payout request smaller than the first pending commission selected
\* nothing although a later pending commission would have fitted
C20_Witness ==
  \E p \in Procs :
    /\ pc[p] = "mp_update" /\ loc[p].sel = <<>>
    /\ LET list == PendingOf(loc[p].agent, commissions) IN
         /\ Len(list) >= 2
         /\ commissions[list[1]].amount > loc[p].amt
         /\ \E i \in 2..Len(list) : commissions[list[i]].amount <= loc[p].amt

\* C21: in every state, a Commission whose payoutId is set refers to an
\* existing Payout whose commissionIds contains it, and every commission in a
\* Payout's commissionIds is paid and has that Payout as its payoutId.
C21_PayoutLinkage ==
  /\ \A c \in Ids(commissions) :
       commissions[c].payoutId # 0 =>
         /\ commissions[c].payoutId \in Ids(payouts)
         /\ c \in payouts[commissions[c].payoutId].commissionIds
  /\ \A po \in Ids(payouts) : \A c \in payouts[po].commissionIds :
       /\ commissions[c].status = "paid"
       /\ commissions[c].payoutId = po

\* C22: when no handler is in progress, each user's totalCommission is the sum
\* of the amounts of that user's commissions that are not cancelled, and
\* totalReferrals is the number of commissions created for that user.
C22_CountersMatchLedger ==
  Quiet =>
    \A a \in Users :
      LET mine == {c \in Ids(commissions) : /\ commissions[c].agent = a
                                            /\ commissions[c].type = "commission"}
      IN /\ users[a].totalCommission =
              SumSet({c \in mine : commissions[c].status # "cancelled"}, commissions)
         /\ users[a].totalReferrals = Cardinality(mine)

\* C23: an agent's payout request for more than the agent's pending
\* commissions add up to is turned down: requestPayout answers 400 and writes
\* nothing, and createPayoutRequest stores no request for such an amount.
C23_RequestExceedingRejected ==
  [][\A p \in Procs :
       LET available == SumSeq(PendingOf(loc[p].agent, commissions), commissions) IN
       /\ (Steps(p) /\ pc[p] = "rp_agg" /\ loc[p].amt > available)
            => pc'[p] = "done" /\ loc'[p].resp = 400 /\ UNCHANGED stores
       /\ (Steps(p) /\ pc[p] = "cpr_save") => loc[p].amt <= available]_vars

\* C24: a succeeded event for a user whose document, as the handler loaded
\* it, already has the course in coursesEnrolled changes no record: no
\* Payment, no Commission, no counter, no second entry in the user's lists.
C24_AlreadyEnrolledNoOp ==
  [][\A p \in Procs :
       (/\ Steps(p) /\ loc[p].op \in {"webhook", "manual"}
        /\ pc[p] \notin {"w_load", "m_load"}
        /\ Contains(loc[p].enr, loc[p].course))
         => UNCHANGED stores]_vars

\* C25: however often the payment-failed event of a transaction is delivered,
\* there is one failed Payment for the transaction, not more.
C25_FailedEventIdempotent ==
  \A tx \in Tx :
    Cardinality({i \in Ids(payments) : /\ payments[i].tx = tx
                                       /\ payments[i].status = "failed"}) <= 1

\* C26: a succeeded event that is delivered when only failed Payments are on
\* file for its transaction and the purchaser is not enrolled ends, when it is
\* acknowledged, with a completed Payment for the transaction and the
\* purchaser enrolled in the course.
C26_SuccessAfterFailure ==
  [][\A p \in Procs :
       (/\ Steps(p) /\ loc[p].op = "webhook" /\ loc[p].meta
        /\ pc'[p] = "done" /\ loc'[p].resp = 200
        /\ \E i \in Ids(payments) : payments[i].tx = loc[p].tx
        /\ \A i \in Ids(payments) :
             payments[i].tx = loc[p].tx => payments[i].status = "failed"
        /\ ~Contains(loc[p].enr, loc[p].course))
         => /\ \E i \in Ids(payments') : /\ payments'[i].tx = loc[p].tx
                                         /\ payments'[i].status = "completed"
            /\ Contains(users'[loc[p].caller].enrolled, loc[p].course)]_vars

\* C27: every completed Payment is for the user and the course the payment
\* intent was created for.
C27_PaymentMatchesIntent ==
  \A i \in Ids(payments) :
    payments[i].status = "completed" =>
      /\ payments[i].user = IntentUser(payments[i].tx)
      /\ payments[i].course = IntentCourse(payments[i].tx)

\* C28: when a delivery of a succeeded event is acknowledged (after which the
\* provider delivers it no more) and no other handler is in progress, every
\* completed Payment of that transaction has its user enrolled in its course.
C28_PaidPurchaseDelivered ==
  [][\A p \in Procs :
       (/\ Steps(p) /\ loc[p].op = "webhook"
        /\ pc'[p] = "done" /\ loc'[p].resp = 200
        /\ \A q \in Procs \ {p} : pc[q] \in {"idle", "done"})
         => \A i \in Ids(payments') :
              (payments'[i].tx = loc[p].tx /\ payments'[i].status = "completed")
                => Contains(users'[payments'[i].user].enrolled, payments'[i].course)]_vars

\* C29: the commissions processBankTransfer turns from pending to paid add up
\* to at most the requested amount, and the payout record it stores carries
\* the sum of the commissions it marked paid.
C29_BankTransferWithinAmount ==
  [][\A p \in Procs :
       /\ (Steps(p) /\ pc[p] = "bt_update") =>
            SumSet({c \in Ids(commissions) : /\ commissions[c].status = "pending"
                                             /\ commissions'[c].status = "paid"},
                   commissions) <= loc[p].amt
       /\ (Steps(p) /\ pc[p] = "bt_save") =>
            commissions'[Len(commissions')].amount = SumSeq(loc[p].sel, commissions)]_vars

\* C30: when no handler is in progress, no commission of a refunded Payment
\* is pending.
C30_RefundedHasNoPending ==
  Quiet =>
    \A i \in Ids(payments) :
      payments[i].status = "refunded" =>
        \A c \in CommissionsOf(i) : commissions[c].status # "pending"

====
